---- MODULE Spec2Model ----
(***************************************************************************)
(* ThreadCommissioner.h, the umbrella header of the Thread Commissioner    *)
(* package, modelled as the text the C preprocessor reads and the          *)
(* translation unit state its directives change.                           *)
(*                                                                         *)
(* The header is a sequence of 36 lines.  A translation unit includes it   *)
(* any number of times, possibly between other headers; each inclusion is  *)
(* read line by line.  The state is the preprocessor's: the macros that    *)
(* are defined, the files #import has seen, the stack of open conditional  *)
(* directives, the expansion produced by the current inclusion and the     *)
(* declarations the translation unit has accumulated.                      *)
(***************************************************************************)
EXTENDS Integers, Sequences, FiniteSets, TLC

\* ------------------------------------------------------------------ bounds
MaxIncl == 3      \* inclusions of the header in one translation unit
MaxOther == 2     \* directives of other headers between the inclusions

\* ------------------------------------------------------- the header's text
L(kind, arg, toks) == [kind |-> kind, arg |-> arg, toks |-> toks]

Comment == L("comment", "", <<>>)
Blank   == L("blank", "", <<>>)

GuardName == "ThreadCommissioner_h"
CppName   == "__cplusplus"
FuncName  == "mbedtls_ssl_set_hs_ecjpake_password"

\* lines 1-7: the banner comment and the blank line after it
Banner == << Comment, Comment, Comment, Comment, Comment, Comment, Blank >>

\* a guard whose #define misspells the name the #ifndef tests
GuardOpenTypo ==
    << L("ifndef", GuardName, <<>>),
       L("define", "ThreadComissioner_h", <<>>),
       Blank >>

\* lines 8-10: the include guard is opened
GuardOpen ==
    << L("ifndef", GuardName, <<>>),
       L("define", GuardName, <<>>),
       Blank >>

\* lines 11-22: the mbedTLS imports and stddef.h
Imports ==
    << Comment,
       L("import", "mbedtls/ssl.h", <<>>),
       L("import", "mbedtls/net_sockets.h", <<>>),
       L("import", "mbedtls/entropy.h", <<>>),
       L("import", "mbedtls/ctr_drbg.h", <<>>),
       L("import", "mbedtls/error.h", <<>>),
       L("import", "mbedtls/debug.h", <<>>),
       L("import", "mbedtls/timing.h", <<>>),
       L("import", "mbedtls/ssl_ciphersuites.h", <<>>),
       Blank,
       L("include", "stddef.h", <<>>),
       Blank >>

\* lines 23-26: extern "C" is opened when compiling as C++
ExternOpen ==
    << L("ifdef", CppName, <<>>),
       L("text", "", << "extern", "\"C\"", "{" >>),
       L("endif", "", <<>>),
       Blank >>

\* the prototype with the password and its length in the wrong order
PrototypeSwapped ==
    << Comment,
       L("text", "", << "int", FuncName, "(", "mbedtls_ssl_context", "*", "ssl", "," >>),
       L("text", "", << "size_t", "pw_len", "," >>),
       L("text", "", << "const", "unsigned", "char", "*", "pw", ")", ";" >>),
       Blank >>

\* the prototype preceded by a variable of the header's own
PrototypeWithVar ==
    << L("text", "", << "static", "int", "last_status", ";" >>),
       L("text", "", << "int", FuncName, "(", "mbedtls_ssl_context", "*", "ssl", "," >>),
       L("text", "", << "const", "unsigned", "char", "*", "pw", "," >>),
       L("text", "", << "size_t", "pw_len", ")", ";" >>),
       Blank >>

\* the prototype turned into a stub definition with a body
PrototypeWithBody ==
    << Comment,
       L("text", "", << "int", FuncName, "(", "mbedtls_ssl_context", "*", "ssl", "," >>),
       L("text", "", << "const", "unsigned", "char", "*", "pw", "," >>),
       L("text", "", << "size_t", "pw_len", ")", "{", "return", "0", ";", "}" >>),
       Blank >>

\* lines 27-31: the EC-JPAKE password function declaration
Prototype ==
    << Comment,
       L("text", "", << "int", FuncName, "(", "mbedtls_ssl_context", "*", "ssl", "," >>),
       L("text", "", << "const", "unsigned", "char", "*", "pw", "," >>),
       L("text", "", << "size_t", "pw_len", ")", ";" >>),
       Blank >>

\* the closing brace left outside the __cplusplus conditional
ExternCloseUnguarded ==
    << Blank,
       L("text", "", << "}" >>),
       Blank,
       Blank >>

\* lines 32-35: extern "C" is closed when compiling as C++
ExternClose ==
    << L("ifdef", CppName, <<>>),
       L("text", "", << "}" >>),
       L("endif", "", <<>>),
       Blank >>

\* line 36: the include guard is closed
GuardClose == << L("endif", "", <<>>) >>

Header ==
    Banner \o GuardOpen \o Imports \o ExternOpen \o Prototype
           \o ExternClose \o GuardClose

NumLines == Len(Header)

\* --------------------------------------------------------------- the state
VARIABLES
    pc,         \* 0 between inclusions, else the header line read next
    condStack,  \* open conditionals: TRUE where the branch is taken
    macros,     \* the macros defined in the translation unit
    imported,   \* the files #import has already seen
    out,        \* the expansion of the current (or last) inclusion
    decls,      \* the declarations the translation unit has seen
    nIncl,      \* completed inclusions of the header
    nOther,     \* directives of other headers processed
    nUndef      \* how many of them undefined the guard

vars == << pc, condStack, macros, imported, out, decls, nIncl, nOther, nUndef >>

\* ------------------------------------------------- preprocessor operators
\* a line is processed only when every enclosing conditional is taken
Active(stack) == \A i \in 1..Len(stack) : stack[i]

\* #ifndef tested as if it were #ifdef
IfndefAsIfdef(name, defined) == name \in defined

\* #ifndef NAME: the branch is taken when NAME is not defined
IfndefTaken(name, defined) == name \notin defined

\* #ifdef NAME: the branch is taken when NAME is defined
IfdefTaken(name, defined) == name \in defined

Item(kind, val) == [kind |-> kind, val |-> val]

RECURSIVE TokItems(_)
TokItems(toks) ==
    IF toks = <<>> THEN <<>>
    ELSE << Item("tok", Head(toks)) >> \o TokItems(Tail(toks))

\* the tokens of an expansion, its include events left out
RECURSIVE Tokens(_)
Tokens(items) ==
    IF items = <<>> THEN <<>>
    ELSE (IF Head(items).kind = "tok" THEN << Head(items).val >> ELSE <<>>)
         \o Tokens(Tail(items))

\* --------------------------------------------- the declarations of C text
Keywords == { "int", "const", "unsigned", "char", "static", "*" }

\* index of the first occurrence of t in toks, 0 when there is none
RECURSIVE IndexOf(_, _, _)
IndexOf(toks, t, i) ==
    IF i > Len(toks) THEN 0
    ELSE IF toks[i] = t THEN i
    ELSE IndexOf(toks, t, i + 1)

RECURSIVE SplitOn(_, _)
SplitOn(toks, sep) ==
    LET i == IndexOf(toks, sep, 1)
    IN  IF i = 0 THEN << toks >>
        ELSE << SubSeq(toks, 1, i - 1) >>
             \o SplitOn(SubSeq(toks, i + 1, Len(toks)), sep)

\* a parameter declaration: its last token is the name, the rest the type
Param(toks) ==
    [type |-> SubSeq(toks, 1, Len(toks) - 1), name |-> toks[Len(toks)]]

\* one statement (the tokens before its ';'), declared at brace depth d
Statement(toks, d) ==
    LET open  == IndexOf(toks, "(", 1)
        close == IndexOf(toks, ")", 1)
        parts == SplitOn(SubSeq(toks, open + 1, close - 1), ",")
    IN  IF Len(toks) > 0 /\ toks[1] = "typedef"
        THEN [kind |-> "typedef", name |-> toks[Len(toks)],
              ret |-> <<>>, params |-> <<>>, depth |-> d]
        ELSE IF open > 2 /\ close = Len(toks)
        THEN [kind |-> "prototype", name |-> toks[open - 1],
              ret |-> SubSeq(toks, 1, open - 2),
              params |-> [k \in 1..Len(parts) |-> Param(parts[k])],
              depth |-> d]
        ELSE [kind |-> "variable", name |-> toks[Len(toks)],
              ret |-> SubSeq(toks, 1, Len(toks) - 1),
              params |-> <<>>, depth |-> d]

Marker(kind, d) ==
    [kind |-> kind, name |-> "", ret |-> <<>>, params |-> <<>>, depth |-> d]

\* the items of a token stream: extern "C" { and } markers, and statements
RECURSIVE ParseItems(_, _)
ParseItems(toks, d) ==
    IF toks = <<>> THEN <<>>
    ELSE IF Len(toks) >= 3 /\ SubSeq(toks, 1, 3) = << "extern", "\"C\"", "{" >>
    THEN << Marker("extern_open", d) >>
         \o ParseItems(SubSeq(toks, 4, Len(toks)), d + 1)
    ELSE IF toks[1] = "}"
    THEN << Marker("extern_close", d) >>
         \o ParseItems(Tail(toks), d - 1)
    ELSE LET semi  == IndexOf(toks, ";", 1)
             brace == IndexOf(toks, "{", 1)
             close == IndexOf(toks, "}", 1)
         IN  IF brace # 0 /\ (semi = 0 \/ brace < semi)
             THEN IF close = 0 THEN << Marker("incomplete", d) >>
                  ELSE << Marker("definition", d) >>
                       \o ParseItems(SubSeq(toks, close + 1, Len(toks)), d)
             ELSE IF semi = 0 THEN << Marker("incomplete", d) >>
             ELSE << Statement(SubSeq(toks, 1, semi - 1), d) >>
                  \o ParseItems(SubSeq(toks, semi + 1, Len(toks)), d)

\* the brace depth a token stream ends at
RECURSIVE BraceDepth(_)
BraceDepth(toks) ==
    IF toks = <<>> THEN 0
    ELSE BraceDepth(SubSeq(toks, 1, Len(toks) - 1))
         + (IF toks[Len(toks)] = "{" THEN 1
            ELSE IF toks[Len(toks)] = "}" THEN -1 ELSE 0)

\* language linkage of a declaration at extern "C" depth d
Linkage(d, defined) ==
    IF d > 0 THEN "C"
    ELSE IF CppName \in defined THEN "C++" ELSE "C"

\* the declarations of an expansion, each with its linkage
Declared(items, defined) ==
    LET its == ParseItems(Tokens(items), 0)
    IN  { [kind |-> its[k].kind, name |-> its[k].name, ret |-> its[k].ret,
           params |-> its[k].params,
           linkage |-> Linkage(its[k].depth, defined)] :
          k \in { j \in 1..Len(its) :
                  its[j].kind \in { "prototype", "typedef", "variable",
                                   "definition" } } }

\* the type names (not keywords) an expansion's declarations use
TypeTokens(d) ==
    { d.ret[i] : i \in 1..Len(d.ret) }
    \cup UNION { { d.params[k].type[i] : i \in 1..Len(d.params[k].type) } :
                 k \in 1..Len(d.params) }

TypesNamed(ds) == (UNION { TypeTokens(d) : d \in ds }) \ Keywords

TypesDefined(ds) == { d.name : d \in { e \in ds : e.kind = "typedef" } }

VariablesDefined(ds) == { d.name : d \in { e \in ds : e.kind = "variable" } }

\* ------------------------------------------------------------------- Init
Init ==
    /\ pc = 0
    /\ condStack = <<>>
    /\ macros \in { {}, { CppName } }
    /\ imported = {}
    /\ out = <<>>
    /\ decls = {}
    /\ nIncl = 0
    /\ nOther = 0
    /\ nUndef = 0

\* ---------------------------------------------------------------- actions
\* #include "ThreadCommissioner.h": the header is opened at its first line
BeginInclude ==
    /\ pc = 0
    /\ nIncl < MaxIncl
    /\ pc' = 1
    /\ out' = <<>>
    /\ UNCHANGED << condStack, macros, imported, decls, nIncl, nOther, nUndef >>

InHeader == pc \in 1..NumLines

\* a comment or blank line: nothing is emitted
SkipLine ==
    /\ InHeader
    /\ Header[pc].kind \in { "comment", "blank" }
    /\ pc' = pc + 1
    /\ UNCHANGED << condStack, macros, imported, out, decls, nIncl, nOther, nUndef >>

IfndefLine ==
    /\ InHeader
    /\ Header[pc].kind = "ifndef"
    /\ condStack' = Append(condStack, IfndefTaken(Header[pc].arg, macros))
    /\ pc' = pc + 1
    /\ UNCHANGED << macros, imported, out, decls, nIncl, nOther, nUndef >>

IfdefLine ==
    /\ InHeader
    /\ Header[pc].kind = "ifdef"
    /\ condStack' = Append(condStack, IfdefTaken(Header[pc].arg, macros))
    /\ pc' = pc + 1
    /\ UNCHANGED << macros, imported, out, decls, nIncl, nOther, nUndef >>

EndifLine ==
    /\ InHeader
    /\ Header[pc].kind = "endif"
    /\ Len(condStack) > 0
    /\ condStack' = SubSeq(condStack, 1, Len(condStack) - 1)
    /\ pc' = pc + 1
    /\ UNCHANGED << macros, imported, out, decls, nIncl, nOther, nUndef >>

DefineLine ==
    /\ InHeader
    /\ Header[pc].kind = "define"
    /\ macros' = IF Active(condStack) THEN macros \cup { Header[pc].arg }
                 ELSE macros
    /\ pc' = pc + 1
    /\ UNCHANGED << condStack, imported, out, decls, nIncl, nOther, nUndef >>

\* #import <file>: the file is read unless #import has seen it before
ImportLine ==
    /\ InHeader
    /\ Header[pc].kind = "import"
    /\ IF Active(condStack)
       THEN /\ out' = Append(out, Item("import", Header[pc].arg))
            /\ imported' = imported \cup { Header[pc].arg }
       ELSE UNCHANGED << out, imported >>
    /\ pc' = pc + 1
    /\ UNCHANGED << condStack, macros, decls, nIncl, nOther, nUndef >>

IncludeLine ==
    /\ InHeader
    /\ Header[pc].kind = "include"
    /\ out' = IF Active(condStack)
              THEN Append(out, Item("include", Header[pc].arg))
              ELSE out
    /\ pc' = pc + 1
    /\ UNCHANGED << condStack, macros, imported, decls, nIncl, nOther, nUndef >>

\* a line of C text: its tokens are emitted when the line is active
TextLine ==
    /\ InHeader
    /\ Header[pc].kind = "text"
    /\ out' = IF Active(condStack) THEN out \o TokItems(Header[pc].toks)
              ELSE out
    /\ pc' = pc + 1
    /\ UNCHANGED << condStack, macros, imported, decls, nIncl, nOther, nUndef >>

\* end of file: the translation unit has seen the expansion's declarations
EndInclude ==
    /\ pc = NumLines + 1
    /\ pc' = 0
    /\ decls' = decls \cup Declared(out, macros)
    /\ nIncl' = nIncl + 1
    /\ UNCHANGED << condStack, macros, imported, out, nOther, nUndef >>

\* another header, between two inclusions, defines a macro of its own
OtherMacros == { "OTHER_H" }

OtherDefine ==
    /\ pc = 0
    /\ nOther < MaxOther
    /\ \E m \in OtherMacros : macros' = macros \cup { m }
    /\ nOther' = nOther + 1
    /\ UNCHANGED << pc, condStack, imported, out, decls, nIncl, nUndef >>

\* another header, between two inclusions, undefines the guard
OtherUndefGuard ==
    /\ pc = 0
    /\ nOther < MaxOther
    /\ macros' = macros \ { GuardName }
    /\ nOther' = nOther + 1
    /\ nUndef' = nUndef + 1
    /\ UNCHANGED << pc, condStack, imported, out, decls, nIncl >>

Next ==
    \/ BeginInclude
    \/ SkipLine
    \/ IfndefLine
    \/ IfdefLine
    \/ EndifLine
    \/ DefineLine
    \/ ImportLine
    \/ IncludeLine
    \/ TextLine
    \/ EndInclude
    \/ OtherDefine
    \/ OtherUndefGuard

Spec == Init /\ [][Next]_vars

TypeOK ==
    /\ pc \in 0..(NumLines + 1)
    /\ nIncl \in 0..MaxIncl
    /\ nOther \in 0..MaxOther
    /\ nUndef \in 0..nOther

\* ----------------------------------------------------------------- claims
\* the lines of the header the preprocessor has read so far
LinesRead == IF pc = 0 THEN (IF nIncl > 0 THEN NumLines ELSE 0) ELSE pc - 1

\* the guard branch is open and the last line (#endif) is read next
AtGuardClose == pc = NumLines /\ condStack = << TRUE >>

TheSignature ==
    [kind |-> "prototype",
     name |-> FuncName,
     ret  |-> << "int" >>,
     params |-> << [type |-> << "mbedtls_ssl_context", "*" >>, name |-> "ssl"],
                   [type |-> << "const", "unsigned", "char", "*" >>, name |-> "pw"],
                   [type |-> << "size_t" >>, name |-> "pw_len"] >>,
     linkage |-> "C"]

Signature(d) == [kind |-> d.kind, name |-> d.name, ret |-> d.ret, params |-> d.params]

\* C1: once the header has been included, the translation unit declares
\* mbedtls_ssl_set_hs_ecjpake_password, and every declaration of it returns
\* int and takes (mbedtls_ssl_context *ssl, const unsigned char *pw,
\* size_t pw_len), in this order.
C1_Signature ==
    /\ \A d \in decls :
          d.name = FuncName => Signature(d) = Signature(TheSignature)
    /\ nIncl >= 1 => \E d \in decls : d.name = FuncName

C1_Witness ==
    /\ nIncl >= 1
    /\ \E d \in decls : d.name = FuncName /\ Len(d.params) = 3

DirectiveKinds == { "ifndef", "ifdef", "define", "endif", "import", "include" }

CountLines(kinds) ==
    Cardinality({ i \in 1..LinesRead : Header[i].kind \in kinds })

\* C3 as stated: every line of the header is an include directive, a guard
\* macro or part of the single extern declaration (no line read is anything
\* else), there is no logic and exactly one prototype.
C3_Original ==
    /\ \A i \in 1..LinesRead : Header[i].kind \in DirectiveKinds \cup { "text" }
    /\ \A d \in decls : d.kind = "prototype"
    /\ Cardinality(decls) <= 1

\* C3 as amended: the header has 36 lines; 21 of them are include
\* directives, guard or conditional directives, or part of the single
\* extern declaration, the other 15 are comments or blank lines; the text it
\* emits holds no definition, variable or typedef (0 lines of logic) and
\* exactly one function prototype.
C3_Amended ==
    /\ NumLines = 36
    /\ LinesRead = NumLines =>
          /\ CountLines(DirectiveKinds \cup { "text" }) = 21
          /\ CountLines({ "comment", "blank" }) = 15
    /\ \A k \in 1..Len(ParseItems(Tokens(out), 0)) :
          ParseItems(Tokens(out), 0)[k].kind
              \in { "extern_open", "extern_close", "prototype", "incomplete" }
    /\ \A d \in decls : d.kind = "prototype"
    /\ Cardinality(decls) <= 1
    /\ nIncl >= 1 => Cardinality(decls) = 1

C3_Witness ==
    /\ LinesRead = NumLines
    /\ nIncl >= 1
    /\ Cardinality(decls) = 1
    /\ CountLines({ "comment", "blank" }) > 0

\* C4 as stated: the header defines no variable and no type, and the only
\* type it names is mbedtls_ssl_context, which it does not declare.
C4_Original ==
    /\ VariablesDefined(decls) = {}
    /\ TypesDefined(decls) = {}
    /\ \A d \in decls : d.kind # "definition"
    /\ TypesNamed(decls) \subseteq { "mbedtls_ssl_context" }

\* C4 as amended: the header defines no variable, no type and no structure,
\* so including it adds no mutable state; the types it names beyond the
\* built-in ones are mbedtls_ssl_context and size_t, and it declares neither.
C4_Amended ==
    /\ VariablesDefined(decls) = {}
    /\ TypesDefined(decls) = {}
    /\ \A d \in decls : d.kind # "definition"
    /\ TypesNamed(decls) \subseteq { "mbedtls_ssl_context", "size_t" }
    /\ nIncl >= 1 => TypesNamed(decls) = { "mbedtls_ssl_context", "size_t" }
    /\ TypesNamed(decls) \cap TypesDefined(decls) = {}

C4_Witness ==
    /\ nIncl >= 1
    /\ "size_t" \in TypesNamed(decls)
    /\ "mbedtls_ssl_context" \in TypesNamed(decls)

\* C5: reading the header defines no macro but the guard
\* ThreadCommissioner_h, and it declares no constant: no error code, as a
\* macro or as a variable, is the header's own.
C5_NoErrorTaxonomy ==
    [][ /\ pc # 0 => macros' \ macros \subseteq { GuardName }
        /\ VariablesDefined(decls') = {}
        /\ (pc # 0 /\ pc' = 0) => GuardName \in macros' ]_vars

C5_Witness ==
    /\ nIncl >= 1
    /\ GuardName \in macros
    /\ \E d \in decls : d.name = FuncName /\ d.ret = << "int" >>

\* the expansion of an inclusion that finds the guard undefined
FirstExpansion(defined) ==
    << Item("import", "mbedtls/ssl.h"),
       Item("import", "mbedtls/net_sockets.h"),
       Item("import", "mbedtls/entropy.h"),
       Item("import", "mbedtls/ctr_drbg.h"),
       Item("import", "mbedtls/error.h"),
       Item("import", "mbedtls/debug.h"),
       Item("import", "mbedtls/timing.h"),
       Item("import", "mbedtls/ssl_ciphersuites.h"),
       Item("include", "stddef.h") >>
    \o (IF CppName \in defined
        THEN TokItems(<< "extern", "\"C\"", "{" >>) ELSE <<>>)
    \o TokItems(<< "int", FuncName, "(", "mbedtls_ssl_context", "*", "ssl", ",",
                   "const", "unsigned", "char", "*", "pw", ",",
                   "size_t", "pw_len", ")", ";" >>)
    \o (IF CppName \in defined THEN TokItems(<< "}" >>) ELSE <<>>)

\* C7: the first inclusion defines the guard and emits the eight mbedTLS
\* imports, stddef.h and the prototype; as long as no other header has
\* undefined the guard, every step of a later inclusion emits nothing and
\* leaves the macros, the imported files and the declarations unchanged.
C7_Idempotent ==
    [][ /\ (nIncl = 0 /\ nIncl' = 1) =>
              /\ out' = FirstExpansion(macros')
              /\ GuardName \in macros'
        /\ (nIncl >= 1 /\ nUndef = 0 /\ pc # 0) =>
              /\ out' = <<>>
              /\ macros' = macros
              /\ imported' = imported
              /\ decls' = decls ]_vars

\* a second inclusion, between other headers' macros, has been read whole
C7_Witness ==
    /\ nIncl >= 2
    /\ nUndef = 0
    /\ nOther >= 1
    /\ pc = 0
    /\ out = <<>>
    /\ Cardinality(decls) = 1

ItemKinds(items) == [k \in 1..Len(items) |-> items[k].kind]

\* C8: both conditionals around extern "C" test __cplusplus; when an
\* inclusion with the guard open reaches its last line, the braces it
\* emitted are balanced and the prototype is declared exactly once: inside
\* extern "C" when __cplusplus is defined, and with no extern "C" token
\* emitted when it is not; either way it has C linkage.
C8_ExternCBalanced ==
    /\ AtGuardClose =>
          /\ BraceDepth(Tokens(out)) = 0
          /\ ItemKinds(ParseItems(Tokens(out), 0)) =
                (IF CppName \in macros
                 THEN << "extern_open", "prototype", "extern_close" >>
                 ELSE << "prototype" >>)
          /\ \A k \in 1..Len(ParseItems(Tokens(out), 0)) :
                ParseItems(Tokens(out), 0)[k].kind = "prototype" =>
                   /\ ParseItems(Tokens(out), 0)[k].name = FuncName
                   /\ ParseItems(Tokens(out), 0)[k].depth
                         = (IF CppName \in macros THEN 1 ELSE 0)
          /\ CppName \notin macros =>
                \A i \in 1..Len(out) : out[i].val \notin { "extern", "\"C\"", "{", "}" }
    /\ \A d \in decls : d.name = FuncName => d.linkage = "C"

C8_WitnessCpp ==
    /\ AtGuardClose
    /\ CppName \in macros
    /\ BraceDepth(Tokens(out)) = 0
    /\ \E i \in 1..Len(out) : out[i].val = "{"

====
